---- MODULE Spec2Model ----
\* A model of bookprint: the conversion of one HTML document into a book of
\* pages (internal/book) on top of the parse-tree helpers
\* (internal/util/parsetree) and the slice helpers (internal/util/slices).
\*
\* Representation.
\*   - A Go string is a sequence of one-character strings, so that formatting
\*     (fmt.Sprintf), whitespace normalisation (strings.Fields/Join) and
\*     unescaping (url.QueryUnescape) are computed character by character.
\*   - An html.Node is a record [Type, Data, Attr, Kids]; Kids is the list of
\*     children in sibling order (FirstChild/NextSibling).  A node of the body
\*     is addressed by its position among the children of body.
\*   - Serialized markup (template.HTML) is the sequence of its lexical tokens:
\*     start tags with their attributes, text, end tags.
\*   - A *Chapter is the position of the chapter in the allocation order (its
\*     index in the variable chapters); a *Content is an index into the
\*     variable contents; the nil pointer is Nil.
EXTENDS Integers, Sequences, FiniteSets, TLC

----------------------------------------------------------------------------
\* Bounds of the model.

\* Longest list of body children of a document of Spec.
MaxNodes == 4
\* Deepest heading level used by the documents of Spec.
DocLevels == 2
\* Longest list of headings of a document of SpecHeadings.
MaxHeadings == 5
\* Deepest heading level used by the documents of SpecHeadings.
HeadingLevels == 5
\* Longest list of body children of a document of SpecFaulty and SpecMain.
MaxFileNodes == 4

----------------------------------------------------------------------------
\* The state of one run of the program, or of one call of Pages.

VARIABLES
    file,       \* main: the markup read from the input file
    outputDir,  \* main: the names of the files in the output directory
    partial,    \* the files among them whose contents are not complete
    staticDirectoryFlag,  \* main: the value of the flag of the static directory
    preface,    \* book.New: the markup returned by getPreface
    err,        \* the function whose error ended the run, or NoError
    body,       \* the body element handed to Pages
    pc,         \* the statement the run is at
    headings,   \* Chapters: the headings found in body, as paths
    index,      \* Chapters: the number of headings turned into chapters
    h1Counter,  \* getPrefix: the counters captured by the closure
    h2Counter,
    h3Counter,
    chapters,   \* the Chapter structs in allocation order
    contents,   \* the Content structs in allocation order
    pages,      \* the Page structs in allocation order
    resolved    \* ResolveCrossReferences: the number of pages processed

vars == <<file, outputDir, partial, staticDirectoryFlag, preface, err,
          body, pc, headings, index, h1Counter, h2Counter, h3Counter,
          chapters, contents, pages, resolved>>

\* What the functions of internal/book never touch.
program == <<file, outputDir, partial, staticDirectoryFlag, preface>>

----------------------------------------------------------------------------
\* Strings.

Nil == 0

Digits == <<"0", "1", "2", "3", "4", "5", "6", "7", "8", "9">>

\* fmt's %d verb for a non-negative int.
RECURSIVE FormatInt(_)
FormatInt(n) ==
    IF n < 10 THEN <<Digits[n + 1]>>
    ELSE FormatInt(n \div 10) \o <<Digits[(n % 10) + 1]>>

\* unicode.IsSpace restricted to the characters of the model.
IsSpace(c) == c \in {" ", "\t", "\n"}

\* strings.Fields: the maximal runs of non-space characters, in order.
\* cur is the field being read, acc the fields already closed.
RECURSIVE FieldsFrom(_, _, _, _)
FieldsFrom(s, i, cur, acc) ==
    IF i > Len(s)
    THEN IF cur = <<>> THEN acc ELSE Append(acc, cur)
    ELSE IF IsSpace(s[i])
         THEN FieldsFrom(s, i + 1, <<>>,
                         IF cur = <<>> THEN acc ELSE Append(acc, cur))
         ELSE FieldsFrom(s, i + 1, Append(cur, s[i]), acc)

Fields(s) == FieldsFrom(s, 1, <<>>, <<>>)

\* strings.Join.
RECURSIVE Join(_, _)
Join(elems, sep) ==
    IF elems = <<>> THEN <<>>
    ELSE IF Len(elems) = 1 THEN elems[1]
    ELSE elems[1] \o sep \o Join(Tail(elems), sep)

----------------------------------------------------------------------------
\* net/url: QueryUnescape.

HexDigits ==
    ("0" :> 0) @@ ("1" :> 1) @@ ("2" :> 2) @@ ("3" :> 3) @@ ("4" :> 4) @@
    ("5" :> 5) @@ ("6" :> 6) @@ ("7" :> 7) @@ ("8" :> 8) @@ ("9" :> 9) @@
    ("a" :> 10) @@ ("b" :> 11) @@ ("c" :> 12) @@ ("d" :> 13) @@
    ("e" :> 14) @@ ("f" :> 15) @@
    ("A" :> 10) @@ ("B" :> 11) @@ ("C" :> 12) @@ ("D" :> 13) @@
    ("E" :> 14) @@ ("F" :> 15)

ishex(c) == c \in DOMAIN HexDigits

unhex(c) == HexDigits[c]

\* The characters of the model by byte value; any other byte is written as
\* its number, which is no character of the model.
ByteChars ==
    (32 :> " ") @@ (37 :> "%") @@ (43 :> "+") @@ (97 :> "a") @@ (98 :> "b")

ByteToChar(b) ==
    IF b \in DOMAIN ByteChars THEN ByteChars[b] ELSE "#" \o ToString(b)

\* First pass of unescape: every % is followed by two hex digits.
RECURSIVE WellFormedFrom(_, _)
WellFormedFrom(s, i) ==
    IF i > Len(s) THEN TRUE
    ELSE IF s[i] = "%"
         THEN IF i + 2 > Len(s) \/ ~ishex(s[i + 1]) \/ ~ishex(s[i + 2])
              THEN FALSE
              ELSE WellFormedFrom(s, i + 3)
         ELSE WellFormedFrom(s, i + 1)

\* Second pass of unescape; plus tells whether '+' stands for a space.
RECURSIVE UnescapeFrom(_, _, _)
UnescapeFrom(s, i, plus) ==
    IF i > Len(s) THEN <<>>
    ELSE IF s[i] = "%"
         THEN <<ByteToChar(unhex(s[i + 1]) * 16 + unhex(s[i + 2]))>>
              \o UnescapeFrom(s, i + 3, plus)
         ELSE IF s[i] = "+" /\ plus
              THEN <<" ">> \o UnescapeFrom(s, i + 1, plus)
              ELSE <<s[i]>> \o UnescapeFrom(s, i + 1, plus)

\* url.QueryUnescape: %XX becomes the byte XX, '+' becomes a space; a
\* malformed escape is an error.
QueryUnescape(s) ==
    IF WellFormedFrom(s, 1)
    THEN [val |-> UnescapeFrom(s, 1, TRUE), err |-> FALSE]
    ELSE [val |-> <<>>, err |-> TRUE]

----------------------------------------------------------------------------
\* golang.org/x/net/html nodes and internal/util/parsetree.

ElementNode == "ElementNode"
TextNode == "TextNode"
DocumentNode == "DocumentNode"
CommentNode == "CommentNode"

\* The nil *html.Node.
NilNode == [Type |-> "nil", Data |-> <<>>, Attr |-> <<>>, Kids |-> <<>>]

Element(tag, attr, kids) ==
    [Type |-> ElementNode, Data |-> tag, Attr |-> attr, Kids |-> kids]

TextOf(data) ==
    [Type |-> TextNode, Data |-> data, Attr |-> <<>>, Kids |-> <<>>]

CommentOf(data) ==
    [Type |-> CommentNode, Data |-> data, Attr |-> <<>>, Kids |-> <<>>]

IsNil(node) == node = NilNode

IsText(node) == ~IsNil(node) /\ node.Type = TextNode

IsElement(node) == ~IsNil(node) /\ node.Type = ElementNode

HeadingMap ==
    (<<"h", "1">> :> 1) @@ (<<"h", "2">> :> 2) @@ (<<"h", "3">> :> 3) @@
    (<<"h", "4">> :> 4) @@ (<<"h", "5">> :> 5) @@ (<<"h", "6">> :> 6)

IsHeading(node) == IsElement(node) /\ node.Data \in DOMAIN HeadingMap

IsHead(node) == IsElement(node) /\ node.Data = <<"h", "e", "a", "d">>

IsBody(node) == IsElement(node) /\ node.Data = <<"b", "o", "d", "y">>

\* HeadingLevel: the level of the tag, or -1 and an error.
HeadingLevel(node) ==
    IF node.Data \in DOMAIN HeadingMap
    THEN [level |-> HeadingMap[node.Data], err |-> FALSE]
    ELSE [level |-> -1, err |-> TRUE]

TagName(node) == IF IsElement(node) THEN node.Data ELSE <<>>

\* A func value is a record that names the function and holds what the
\* function captured; NilFunc is the nil func.  Call applies it.
NilFunc == [fn |-> "nil"]
IsHeadingFunc == [fn |-> "IsHeading"]
IsElementOrTextFunc == [fn |-> "IsElementOrText"]
TitleIsFunc(attribute) == [fn |-> "TitleIs", attribute |-> attribute]

Call(predicate, x) ==
    CASE predicate.fn = "IsHeading" -> IsHeading(x)
      [] predicate.fn = "IsElementOrText" -> IsElement(x) \/ IsText(x)
      [] predicate.fn = "TitleIs" ->
            LET referencedTitle == QueryUnescape(predicate.attribute.Val)
            IN  IF referencedTitle.err THEN FALSE
                ELSE pages[x].Title.Text = referencedTitle.val

\* ChildrenFunc: the children of node that satisfy predicate, in sibling
\* order, as positions among the children of node.
ChildrenFunc(node, predicate) ==
    IF IsNil(node) THEN <<>>
    ELSE SelectSeq([i \in 1..Len(node.Kids) |-> i],
                   LAMBDA i : predicate # NilFunc /\ Call(predicate, node.Kids[i]))

\* Children: the element and text children of node (the nodes themselves).
Children(node) ==
    LET ps == ChildrenFunc(node, IsElementOrTextFunc)
    IN  [k \in 1..Len(ps) |-> node.Kids[ps[k]]]

\* Every heading element of the subtree below kids, in document order, as
\* paths: what Headings would return if it descended into the children.
RECURSIVE DescendantHeadingsFrom(_, _, _)
DescendantHeadingsFrom(kids, i, prefix) ==
    IF i > Len(kids) THEN <<>>
    ELSE (IF IsHeading(kids[i]) THEN <<Append(prefix, i)>> ELSE <<>>)
         \o DescendantHeadingsFrom(kids[i].Kids, 1, Append(prefix, i))
         \o DescendantHeadingsFrom(kids, i + 1, prefix)

HeadingsNested(node) ==
    IF IsNil(node) THEN <<>> ELSE DescendantHeadingsFrom(node.Kids, 1, <<>>)

\* Headings: the heading elements that are direct children of node, each as
\* the path (of length one) that leads to it from node.
Headings(node) ==
    IF IsNil(node) THEN <<>>
    ELSE LET ps == ChildrenFunc(node, IsHeadingFunc)
         IN  [k \in 1..Len(ps) |-> <<ps[k]>>]

\* All the siblings after the child at position pos, whatever predicate is.
SiblingsAfter(parent, pos, predicate) ==
    IF pos = Nil THEN <<>>
    ELSE SubSeq(parent.Kids, pos + 1, Len(parent.Kids))

\* SiblingsUntilFunc: the siblings after the child at position pos of parent,
\* up to and without the first one that satisfies predicate; pos = Nil is
\* the nil node.
SiblingsUntilFunc(parent, pos, predicate) ==
    IF pos = Nil THEN <<>>
    ELSE LET stops == {j \in (pos + 1)..Len(parent.Kids) :
                         predicate # NilFunc /\ Call(predicate, parent.Kids[j])}
             last == IF stops = {} THEN Len(parent.Kids)
                     ELSE (CHOOSE j \in stops : \A k \in stops : j <= k) - 1
         IN  SubSeq(parent.Kids, pos + 1, last)

\* Text: the text of the subtree of node, text nodes concatenated.
RECURSIVE TextFrom(_, _)
TextFrom(kids, i) ==
    IF i > Len(kids) THEN <<>>
    ELSE (IF IsText(kids[i]) THEN kids[i].Data
          ELSE IF IsElement(kids[i]) THEN TextFrom(kids[i].Kids, 1)
          ELSE <<>>)
         \o TextFrom(kids, i + 1)

Text(node) == IF IsNil(node) THEN <<>> ELSE TextFrom(node.Kids, 1)

\* html.Render of a list of nodes: start tag, children, end tag; text;
\* comment.
RECURSIVE RenderFrom(_, _)
RenderFrom(nodes, i) ==
    IF i > Len(nodes) THEN <<>>
    ELSE (IF nodes[i].Type = TextNode
          THEN <<[Tok |-> "text", Data |-> nodes[i].Data, Attr |-> <<>>]>>
          ELSE IF nodes[i].Type = CommentNode
          THEN <<[Tok |-> "comment", Data |-> nodes[i].Data, Attr |-> <<>>]>>
          ELSE <<[Tok |-> "start", Data |-> nodes[i].Data,
                  Attr |-> nodes[i].Attr]>>
               \o RenderFrom(nodes[i].Kids, 1)
               \o <<[Tok |-> "end", Data |-> nodes[i].Data, Attr |-> <<>>]>>)
         \o RenderFrom(nodes, i + 1)

\* Html: the serialized markup of the non-nil nodes.
Html(nodes) == [html |-> RenderFrom(SelectSeq(nodes, LAMBDA n : ~IsNil(n)), 1),
                err |-> FALSE]

\* html.Render and html.Parse report no error for the trees and the markup
\* of the documents modelled here; RenderError and ParseError are what the
\* functions return when the library does report one, and the steps of
\* NextFaulty take that case.

\* What Html returns when html.Render reports an error.
RenderError == [html |-> <<>>, err |-> TRUE]

\* The results a call of Html can have: html.Render is a library call that
\* either serializes the nodes or reports an error.
HtmlResults(nodes) == {Html(nodes), RenderError}

\* html.Parse of a fragment of body content: stack holds the open elements,
\* innermost last, each with the children read so far; the bottom entry
\* collects the children of body.
RECURSIVE ParseFrom(_, _, _)
ParseFrom(toks, i, stack) ==
    LET top == stack[Len(stack)]
        rest == SubSeq(stack, 1, Len(stack) - 1)
        below == stack[Len(stack) - 1]
    IN  IF i > Len(toks)
        THEN IF Len(stack) = 1 THEN top.Kids
             ELSE ParseFrom(toks, i,
                     Append(SubSeq(stack, 1, Len(stack) - 2),
                            [below EXCEPT !.Kids = Append(@, top)]))
        ELSE IF toks[i].Tok = "text"
        THEN ParseFrom(toks, i + 1,
                Append(rest, [top EXCEPT !.Kids = Append(@, TextOf(toks[i].Data))]))
        ELSE IF toks[i].Tok = "comment"
        THEN ParseFrom(toks, i + 1,
                Append(rest, [top EXCEPT !.Kids = Append(@, CommentOf(toks[i].Data))]))
        ELSE IF toks[i].Tok = "start"
        THEN ParseFrom(toks, i + 1,
                Append(stack, Element(toks[i].Data, toks[i].Attr, <<>>)))
        ELSE IF Len(stack) = 1 THEN ParseFrom(toks, i + 1, stack)
        ELSE ParseFrom(toks, i + 1,
                Append(SubSeq(stack, 1, Len(stack) - 2),
                       [below EXCEPT !.Kids = Append(@, top)]))

\* The tokens html.Parse treats apart from the content of body.
TitleTag == <<"t", "i", "t", "l", "e">>
HtmlTag == <<"h", "t", "m", "l">>
EndOfHtml == [Tok |-> "end", Data |-> HtmlTag, Attr |-> <<>>]

\* The number of leading tokens html.Parse puts into head: a title element
\* that comes first.
HeadLength(markup) ==
    IF markup # <<>> /\ markup[1].Tok = "start" /\ markup[1].Data = TitleTag
    THEN LET ends == {i \in 1..Len(markup) :
                        markup[i].Tok = "end" /\ markup[i].Data = TitleTag}
         IN  IF ends = {} THEN Len(markup)
             ELSE CHOOSE i \in ends : \A j \in ends : i <= j
    ELSE 0

\* parsetree.New: the document of the markup, document > html > head, body.
\* html.Parse always builds html, head and body; a comment after the end
\* tag of html becomes a child of the document after html, and anything
\* else after that end tag is content of body.
New(markup) ==
    LET ends == {i \in 1..Len(markup) : markup[i] = EndOfHtml}
        cut == IF ends = {} THEN Len(markup) + 1
               ELSE CHOOSE i \in ends : \A j \in ends : i <= j
        before == SubSeq(markup, 1, cut - 1)
        after == SubSeq(markup, cut + 1, Len(markup))
        comments == SelectSeq(after, LAMBDA t : t.Tok = "comment")
        others == SelectSeq(after, LAMBDA t : t.Tok # "comment" /\ t # EndOfHtml)
        inHead == HeadLength(before)
        headKids == ParseFrom(SubSeq(before, 1, inHead), 1,
                       <<Element(<<"h", "e", "a", "d">>, <<>>, <<>>)>>)
        bodyKids == ParseFrom(SubSeq(before, inHead + 1, Len(before)) \o others, 1,
                       <<Element(<<"b", "o", "d", "y">>, <<>>, <<>>)>>)
    IN  [tree |->
            [Type |-> DocumentNode, Data |-> <<>>, Attr |-> <<>>,
             Kids |-> <<Element(HtmlTag, <<>>,
                         <<Element(<<"h", "e", "a", "d">>, <<>>, headKids),
                           Element(<<"b", "o", "d", "y">>, <<>>, bodyKids)>>)>>
                      \o [k \in 1..Len(comments) |-> CommentOf(comments[k].Data)]],
         err |-> FALSE]

\* What parsetree.New returns when html.Parse reports an error.
ParseError == [tree |-> NilNode, err |-> TRUE]

\* The results a call of parsetree.New can have.
NewResults(markup) == {New(markup), ParseError}

\* Body: the loop returns a child that is a body element at once, and
\* otherwise keeps the result of the search below the last child visited.
RECURSIVE Body(_)
RECURSIVE BodyLoop(_, _, _)
BodyLoop(kids, i, found) ==
    IF i > Len(kids) THEN found
    ELSE IF IsBody(kids[i]) THEN kids[i]
    ELSE BodyLoop(kids, i + 1, Body(kids[i]))

Body(node) ==
    IF IsNil(node) THEN NilNode
    ELSE IF IsBody(node) THEN node
    ELSE BodyLoop(node.Kids, 1, NilNode)

\* parsetree.Head (Head is the head of a sequence here): the same loop as
\* Body, for the head element.
RECURSIVE HeadElement(_)
RECURSIVE HeadLoop(_, _, _)
HeadLoop(kids, i, found) ==
    IF i > Len(kids) THEN found
    ELSE IF IsHead(kids[i]) THEN kids[i]
    ELSE HeadLoop(kids, i + 1, HeadElement(kids[i]))

HeadElement(node) ==
    IF IsNil(node) THEN NilNode
    ELSE IF IsHead(node) THEN node
    ELSE HeadLoop(node.Kids, 1, NilNode)

\* ElementsByTagName: the descendants of node whose Data is one of tags,
\* each as the path of child positions that leads to it from node; a child
\* comes before its own descendants.
RECURSIVE ElementsFrom(_, _, _, _)
ElementsFrom(kids, i, tags, prefix) ==
    IF i > Len(kids) THEN <<>>
    ELSE (IF kids[i].Data \in tags THEN <<Append(prefix, i)>> ELSE <<>>)
         \o ElementsFrom(kids[i].Kids, 1, tags, Append(prefix, i))
         \o ElementsFrom(kids, i + 1, tags, prefix)

ElementsByTagName(node, tags) ==
    IF IsNil(node) THEN <<>>
    ELSE IF tags = {} THEN <<>>
    ELSE ElementsFrom(node.Kids, 1, tags, <<>>)

\* The node at the end of a path below node.
RECURSIVE NodeAt(_, _)
NodeAt(node, path) ==
    IF path = <<>> THEN node ELSE NodeAt(node.Kids[path[1]], Tail(path))

\* link.Attr[index].Val = val, for the node at the end of a path below node.
RECURSIVE SetAttrVal(_, _, _, _)
SetAttrVal(node, path, at, val) ==
    IF path = <<>>
    THEN [node EXCEPT !.Attr[at].Val = val]
    ELSE [node EXCEPT !.Kids[path[1]] =
                          SetAttrVal(@, Tail(path), at, val)]

----------------------------------------------------------------------------
\* internal/util/slices.  Slices are sequences; a Go index i is position i + 1.

\* Index: the Go index of the first occurrence of element, or -1.
Index(slice, element) ==
    LET hits == {i \in 1..Len(slice) : slice[i] = element}
    IN  IF hits = {} THEN -1
        ELSE (CHOOSE i \in hits : \A j \in hits : i <= j) - 1

\* FindFunc: the first element that satisfies predicate, or the zero value.
FindFunc(slice, predicate) ==
    LET hits == {i \in 1..Len(slice) : Call(predicate, slice[i])}
    IN  IF hits = {} THEN Nil
        ELSE slice[CHOOSE i \in hits : \A j \in hits : i <= j]

\* Insert: a copy of slice, grown with zero values up to at if needed,
\* with element at at.
Insert(slice, element, at) ==
    LET size == IF at < Len(slice) THEN Len(slice)
                ELSE Len(slice) + ((at + 1) - Len(slice))
        values == [k \in 1..size |-> IF k <= Len(slice) THEN slice[k] ELSE Nil]
    IN  [values EXCEPT ![at + 1] = element]

IsEmpty(slice) == Len(slice) = 0

----------------------------------------------------------------------------
\* The slice []*T over the structs allocated so far.
Pointers(heap) == [i \in 1..Len(heap) |-> i]

----------------------------------------------------------------------------
\* internal/book/chapters.go

\* getPrefix with a level-1 heading that leaves h2Counter alone.
getPrefixKeepH2(h1, h2, h3, heading) ==
    LET tagName == TagName(heading)
    IN  IF tagName = <<"h", "1">>
        THEN [out |-> FormatInt(h1 + 1), h1 |-> h1 + 1, h2 |-> h2, h3 |-> h3]
        ELSE IF tagName = <<"h", "2">>
        THEN [out |-> FormatInt(h1) \o <<".">> \o FormatInt(h2 + 1),
              h1 |-> h1, h2 |-> h2 + 1, h3 |-> 0]
        ELSE IF tagName = <<"h", "3">>
        THEN [out |-> FormatInt(h1) \o <<".">> \o FormatInt(h2) \o <<".">>
                      \o FormatInt(h3 + 1),
              h1 |-> h1, h2 |-> h2, h3 |-> h3 + 1]
        ELSE [out |-> <<>>, h1 |-> h1, h2 |-> h2, h3 |-> h3]

\* getPrefix with a level-1 heading that also resets h3Counter.
getPrefixResetH3(h1, h2, h3, heading) ==
    LET tagName == TagName(heading)
    IN  IF tagName = <<"h", "1">>
        THEN [out |-> FormatInt(h1 + 1), h1 |-> h1 + 1, h2 |-> 0, h3 |-> 0]
        ELSE IF tagName = <<"h", "2">>
        THEN [out |-> FormatInt(h1) \o <<".">> \o FormatInt(h2 + 1),
              h1 |-> h1, h2 |-> h2 + 1, h3 |-> 0]
        ELSE IF tagName = <<"h", "3">>
        THEN [out |-> FormatInt(h1) \o <<".">> \o FormatInt(h2) \o <<".">>
                      \o FormatInt(h3 + 1),
              h1 |-> h1, h2 |-> h2, h3 |-> h3 + 1]
        ELSE [out |-> <<>>, h1 |-> h1, h2 |-> h2, h3 |-> h3]

\* getPrefix with a level-4 heading counted like a level-3 heading.
getPrefixCountH4(h1, h2, h3, heading) ==
    LET tagName == TagName(heading)
    IN  IF tagName = <<"h", "1">>
        THEN [out |-> FormatInt(h1 + 1), h1 |-> h1 + 1, h2 |-> 0, h3 |-> h3]
        ELSE IF tagName = <<"h", "2">>
        THEN [out |-> FormatInt(h1) \o <<".">> \o FormatInt(h2 + 1),
              h1 |-> h1, h2 |-> h2 + 1, h3 |-> 0]
        ELSE IF tagName = <<"h", "3">>
        THEN [out |-> FormatInt(h1) \o <<".">> \o FormatInt(h2) \o <<".">>
                      \o FormatInt(h3 + 1),
              h1 |-> h1, h2 |-> h2, h3 |-> h3 + 1]
        ELSE IF tagName = <<"h", "4">>
        THEN [out |-> <<>>, h1 |-> h1, h2 |-> h2, h3 |-> h3 + 1]
        ELSE [out |-> <<>>, h1 |-> h1, h2 |-> h2, h3 |-> h3]

\* getPrefix with a level-2 heading that does not count itself.
getPrefixUncountedH2(h1, h2, h3, heading) ==
    LET tagName == TagName(heading)
    IN  IF tagName = <<"h", "1">>
        THEN [out |-> FormatInt(h1 + 1), h1 |-> h1 + 1, h2 |-> 0, h3 |-> h3]
        ELSE IF tagName = <<"h", "2">>
        THEN [out |-> FormatInt(h1) \o <<".">> \o FormatInt(h2 + 1),
              h1 |-> h1, h2 |-> h2, h3 |-> 0]
        ELSE IF tagName = <<"h", "3">>
        THEN [out |-> FormatInt(h1) \o <<".">> \o FormatInt(h2) \o <<".">>
                      \o FormatInt(h3 + 1),
              h1 |-> h1, h2 |-> h2, h3 |-> h3 + 1]
        ELSE [out |-> <<>>, h1 |-> h1, h2 |-> h2, h3 |-> h3]

\* The closure returned by getPrefix, applied to heading with the counters
\* at h1, h2, h3: the prefix and the counters afterwards.
getPrefix(h1, h2, h3, heading) ==
    LET tagName == TagName(heading)
    IN  IF tagName = <<"h", "1">>
        THEN [out |-> FormatInt(h1 + 1), h1 |-> h1 + 1, h2 |-> 0, h3 |-> h3]
        ELSE IF tagName = <<"h", "2">>
        THEN [out |-> FormatInt(h1) \o <<".">> \o FormatInt(h2 + 1),
              h1 |-> h1, h2 |-> h2 + 1, h3 |-> 0]
        ELSE IF tagName = <<"h", "3">>
        THEN [out |-> FormatInt(h1) \o <<".">> \o FormatInt(h2) \o <<".">>
                      \o FormatInt(h3 + 1),
              h1 |-> h1, h2 |-> h2, h3 |-> h3 + 1]
        ELSE [out |-> <<>>, h1 |-> h1, h2 |-> h2, h3 |-> h3]

\* A path that does not depend on the id.
PagePathConstant(id) ==
    <<"p", "a", "g", "e">> \o FormatInt(1) \o <<".", "h", "t", "m", "l">>

\* fmt.Sprintf("page%d.html", id)
PagePath(id) ==
    <<"p", "a", "g", "e">> \o FormatInt(id) \o <<".", "h", "t", "m", "l">>

\* The last position of a path and the path of its parent.
Last(path) == path[Len(path)]
Front(path) == SubSeq(path, 1, Len(path) - 1)

\* The value of err while no function has returned an error.
NoError == "nil"

\* Pages, up to the call of Chapters: the body check.  On an error Pages
\* returns its list of pages, which is still empty.
PagesEnter ==
    /\ pc = "Pages"
    /\ IF IsBody(body)
       THEN /\ pc' = "Chapters"
            /\ err' = err
       ELSE /\ pc' = "failed"
            /\ err' = "Pages"
    /\ UNCHANGED <<program, body, headings, index, h1Counter, h2Counter,
                   h3Counter, chapters, contents, pages, resolved>>

\* Chapters without its check of the node.
ChaptersEnterUnchecked ==
    /\ pc = "Chapters"
    /\ headings' = Headings(body)
    /\ pc' = "ChaptersLoop"
    /\ index' = 0
    /\ h1Counter' = 0
    /\ h2Counter' = 0
    /\ h3Counter' = 0
    /\ UNCHANGED <<program, err, body, chapters, contents, pages, resolved>>

\* Chapters, up to the loop: the body check, the headings, a fresh closure.
\* Pages has checked the node before it calls Chapters, so the check fails
\* only when Chapters is called on its own.
ChaptersEnter ==
    /\ pc = "Chapters"
    /\ IF IsBody(body)
       THEN /\ headings' = Headings(body)
            /\ pc' = "ChaptersLoop"
            /\ err' = err
       ELSE /\ headings' = headings
            /\ pc' = "failed"
            /\ err' = "Chapters"
    /\ index' = 0
    /\ h1Counter' = 0
    /\ h2Counter' = 0
    /\ h3Counter' = 0
    /\ UNCHANGED <<program, body, chapters, contents, pages, resolved>>

\* Chapters, one iteration of the loop over headings.
ChaptersLoop ==
    /\ pc = "ChaptersLoop"
    /\ index < Len(headings)
    /\ LET heading == headings[index + 1]
           node == NodeAt(body, heading)
           id == index + 1
           path == PagePath(id)
           level == HeadingLevel(node)
           headingText == Join(Fields(Text(node)), <<" ">>)
           headingHtml == Html(Children(node))
           content == SiblingsUntilFunc(NodeAt(body, Front(heading)),
                                        Last(heading), IsHeadingFunc)
           contentHtml == Html(content)
           prefix == getPrefix(h1Counter, h2Counter, h3Counter, node)
       IN  /\ ~level.err
           /\ ~headingHtml.err
           /\ ~contentHtml.err
           /\ contents' = Append(contents, [Html |-> contentHtml.html])
           /\ chapters' = Append(chapters,
                  [Id |-> id,
                   Level |-> level.level,
                   Path |-> path,
                   Title |-> [Prefix |-> prefix.out,
                              Html |-> headingHtml.html,
                              Text |-> headingText],
                   Content |-> Len(contents) + 1])
           /\ h1Counter' = prefix.h1
           /\ h2Counter' = prefix.h2
           /\ h3Counter' = prefix.h3
    /\ index' = index + 1
    /\ UNCHANGED <<program, err, body, pc, headings, pages, resolved>>

\* Chapters, an iteration in which HeadingLevel fails or html.Render reports
\* an error for the heading or for the content: Chapters returns the
\* chapters made so far with the error, and Pages returns its own list,
\* which is still empty, with the error.
ChaptersLoopError ==
    /\ pc = "ChaptersLoop"
    /\ index < Len(headings)
    /\ LET heading == headings[index + 1]
           node == NodeAt(body, heading)
           level == HeadingLevel(node)
           content == SiblingsUntilFunc(NodeAt(body, Front(heading)),
                                        Last(heading), IsHeadingFunc)
       IN  \E headingHtml \in HtmlResults(Children(node)) :
           \E contentHtml \in HtmlResults(content) :
               TRUE \in {level.err, headingHtml.err, contentHtml.err}
    /\ pc' = "failed"
    /\ err' = "Pages"
    /\ UNCHANGED <<program, body, headings, index, h1Counter, h2Counter,
                   h3Counter, chapters, contents, pages, resolved>>

----------------------------------------------------------------------------
\* internal/book/pages.go.  chapter is a *Chapter, chs the Chapter structs;
\* the slice []*Chapter the functions range over is Pointers(chs).

\* getParents, the loop from Go index i on.
RECURSIVE getParentsFrom(_, _, _, _)
getParentsFrom(chapter, chs, i, parents) ==
    IF ~(i < Index(Pointers(chs), chapter)) THEN parents
    ELSE LET current == Pointers(chs)[i + 1]
             isParent == chs[current].Level < chs[chapter].Level
         IN  getParentsFrom(chapter, chs, i + 1,
                IF isParent
                THEN Insert(parents, current, chs[current].Level - 1)
                ELSE parents)

\* getParents keeping every earlier chapter, whatever its level.
getParentsAnyLevel(chapter, chs) ==
    LET RECURSIVE loop(_, _)
        loop(i, parents) ==
            IF ~(i < Index(Pointers(chs), chapter)) THEN parents
            ELSE loop(i + 1, Insert(parents, Pointers(chs)[i + 1],
                                    chs[Pointers(chs)[i + 1]].Level - 1))
    IN  loop(0, <<>>)

getParents(chapter, chs) == getParentsFrom(chapter, chs, 0, <<>>)

\* getNext, the loop from Go index i on.
RECURSIVE getNextFrom(_, _, _)
getNextFrom(chapter, chs, i) ==
    IF ~(i < Len(Pointers(chs))) THEN Nil
    ELSE LET next == Pointers(chs)[i + 1]
         IN  IF chs[next].Level = chs[chapter].Level THEN next
             ELSE IF chs[next].Level < chs[chapter].Level THEN Nil
             ELSE getNextFrom(chapter, chs, i + 1)

\* getNext without the test that ends the scan at a lower level.
getNextAcross(chapter, chs) ==
    LET later == {p \in 1..Len(chs) :
                    /\ p > chapter
                    /\ chs[p].Level = chs[chapter].Level}
    IN  IF later = {} THEN Nil
        ELSE CHOOSE p \in later : \A q \in later : p <= q

getNext(chapter, chs) ==
    getNextFrom(chapter, chs, Index(Pointers(chs), chapter) + 1)

\* getPrevious, the loop from Go index i down.
RECURSIVE getPreviousFrom(_, _, _)
getPreviousFrom(chapter, chs, i) ==
    IF ~(i >= 0) THEN Nil
    ELSE LET previous == Pointers(chs)[i + 1]
         IN  IF chs[previous].Level = chs[chapter].Level THEN previous
             ELSE IF chs[previous].Level < chs[chapter].Level THEN Nil
             ELSE getPreviousFrom(chapter, chs, i - 1)

\* getPrevious without the test that ends the scan at a lower level.
getPreviousAcross(chapter, chs) ==
    LET earlier == {p \in 1..Len(chs) :
                      /\ p < chapter
                      /\ chs[p].Level = chs[chapter].Level}
    IN  IF earlier = {} THEN Nil
        ELSE CHOOSE p \in earlier : \A q \in earlier : p >= q

getPrevious(chapter, chs) ==
    getPreviousFrom(chapter, chs, Index(Pointers(chs), chapter) - 1)

\* getChildren, the loop from Go index i on.
RECURSIVE getChildrenFrom(_, _, _, _)
getChildrenFrom(chapter, chs, i, children) ==
    IF ~(i < Len(Pointers(chs))) THEN children
    ELSE LET current == Pointers(chs)[i + 1]
             isChild == chs[current].Level = chs[chapter].Level + 1
             isConsidered == chs[current].Level <= 3
             appended == IF isChild /\ isConsidered
                         THEN Append(children, current) ELSE children
             isNoLongerInCurrentChapter ==
                 chs[current].Level <= chs[chapter].Level
         IN  IF isNoLongerInCurrentChapter THEN appended
             ELSE getChildrenFrom(chapter, chs, i + 1, appended)

\* getChildren that ends the scan only at a strictly lower level.
getChildrenPastSibling(chapter, chs) ==
    LET RECURSIVE loop(_, _)
        loop(i, children) ==
            IF ~(i < Len(Pointers(chs))) THEN children
            ELSE LET current == Pointers(chs)[i + 1]
                     appended ==
                         IF /\ chs[current].Level = chs[chapter].Level + 1
                            /\ chs[current].Level <= 3
                         THEN Append(children, current) ELSE children
                 IN  IF chs[current].Level < chs[chapter].Level
                     THEN appended
                     ELSE loop(i + 1, appended)
    IN  loop(Index(Pointers(chs), chapter) + 1, <<>>)

getChildren(chapter, chs) ==
    getChildrenFrom(chapter, chs,
                    Index(Pointers(chs), chapter) + 1, <<>>)

\* A Page that takes over the title without its numbering prefix.
PageOfWithoutPrefix(chapter, chs) ==
    LET next == getNext(chapter, chs)
        previous == getPrevious(chapter, chs)
        parents == getParents(chapter, chs)
        children == getChildren(chapter, chs)
    IN  [Id |-> chs[chapter].Id,
         Level |-> chs[chapter].Level,
         Path |-> chs[chapter].Path,
         Title |-> [chs[chapter].Title EXCEPT !.Prefix = <<>>],
         Content |-> chs[chapter].Content,
         Next |-> next,
         HasNext |-> next # Nil,
         Previous |-> previous,
         HasPrevious |-> previous # Nil,
         Parents |-> parents,
         HasParents |-> ~IsEmpty(parents),
         Children |-> children,
         HasChildren |-> ~IsEmpty(children)]

\* The Page built for chapter by one iteration of the loop of Pages.
PageOf(chapter, chs) ==
    LET next == getNext(chapter, chs)
        previous == getPrevious(chapter, chs)
        parents == getParents(chapter, chs)
        children == getChildren(chapter, chs)
    IN  [Id |-> chs[chapter].Id,
         Level |-> chs[chapter].Level,
         Path |-> chs[chapter].Path,
         Title |-> chs[chapter].Title,
         Content |-> chs[chapter].Content,
         Next |-> next,
         HasNext |-> next # Nil,
         Previous |-> previous,
         HasPrevious |-> previous # Nil,
         Parents |-> parents,
         HasParents |-> ~IsEmpty(parents),
         Children |-> children,
         HasChildren |-> ~IsEmpty(children)]

\* Pages, after Chapters has returned: the loop over the chapters.
PagesLoop ==
    /\ pc = "ChaptersLoop"
    /\ index = Len(headings)
    /\ pages' = [k \in 1..Len(chapters) |->
                    PageOf(Pointers(chapters)[k], chapters)]
    /\ resolved' = 0
    /\ pc' = "ResolveCrossReferences"
    /\ UNCHANGED <<program, err, body, headings, index, h1Counter, h2Counter,
                   h3Counter, chapters, contents>>

----------------------------------------------------------------------------
\* internal/book/transformers.go

Href == <<"h", "r", "e", "f">>

\* The loop over the attributes of one link, from Go index i on; root is
\* the body of the re-parsed content, link the path of the link below it.
RECURSIVE ResolveAttributes(_, _, _, _)
ResolveAttributes(root, link, i, ps) ==
    IF ~(i < Len(NodeAt(root, link).Attr)) THEN root
    ELSE LET attribute == NodeAt(root, link).Attr[i + 1]
             crossReferencedPage ==
                 FindFunc(Pointers(ps), TitleIsFunc(attribute))
         IN  ResolveAttributes(
                IF attribute.Key = Href /\ crossReferencedPage # Nil
                THEN SetAttrVal(root, link, i + 1, ps[crossReferencedPage].Path)
                ELSE root,
                link, i + 1, ps)

\* The loop over the links of one page.
RECURSIVE ResolveLinks(_, _, _, _)
ResolveLinks(root, links, k, ps) ==
    IF k > Len(links) THEN root
    ELSE ResolveLinks(ResolveAttributes(root, links[k], 0, ps), links, k + 1, ps)

\* An iteration that gives the page a new Content with the rewritten markup
\* instead of updating the Content it shares with its chapter.
ResolveLoopNewContent ==
    /\ pc = "ResolveCrossReferences"
    /\ resolved < Len(pages)
    /\ LET page == Pointers(pages)[resolved + 1]
           tree == New(contents[pages[page].Content].Html)
           root == Body(tree.tree)
           links == ElementsByTagName(root, {<<"a">>})
           rewritten == ResolveLinks(root, links, 1, pages)
           html == Html(Children(rewritten))
       IN  /\ ~tree.err
           /\ ~html.err
           /\ contents' = Append(contents, [Html |-> html.html])
           /\ pages' = [pages EXCEPT ![page].Content = Len(contents) + 1]
    /\ resolved' = resolved + 1
    /\ UNCHANGED <<program, err, body, pc, headings, index, h1Counter,
                   h2Counter, h3Counter, chapters>>

\* ResolveCrossReferences, one iteration of the loop over pages.
ResolveLoop ==
    /\ pc = "ResolveCrossReferences"
    /\ resolved < Len(pages)
    /\ LET page == Pointers(pages)[resolved + 1]
           tree == New(contents[pages[page].Content].Html)
           root == Body(tree.tree)
           links == ElementsByTagName(root, {<<"a">>})
           rewritten == ResolveLinks(root, links, 1, pages)
           html == Html(Children(rewritten))
       IN  /\ ~tree.err
           /\ ~html.err
           /\ contents' = [contents EXCEPT ![pages[page].Content].Html = html.html]
    /\ resolved' = resolved + 1
    /\ UNCHANGED <<program, err, body, pc, headings, index, h1Counter,
                   h2Counter, h3Counter, chapters, pages>>

\* A failing iteration that assigns what Html returned to the content
\* before it looks at the error.
ResolveLoopErrorAssigned ==
    /\ pc = "ResolveCrossReferences"
    /\ resolved < Len(pages)
    /\ LET page == Pointers(pages)[resolved + 1]
       IN  \E tree \in NewResults(contents[pages[page].Content].Html) :
           LET root == Body(tree.tree)
               links == ElementsByTagName(root, {<<"a">>})
               rewritten == ResolveLinks(root, links, 1, pages)
           IN  \E html \in HtmlResults(Children(rewritten)) :
                  /\ TRUE \in {tree.err, html.err}
                  /\ contents' = [contents EXCEPT
                                     ![pages[page].Content].Html = RenderError.html]
    /\ pc' = "failed"
    /\ err' = "ResolveCrossReferences"
    /\ UNCHANGED <<program, body, headings, index, h1Counter, h2Counter,
                   h3Counter, chapters, pages, resolved>>

\* ResolveCrossReferences, an iteration in which html.Parse or html.Render
\* reports an error: the function returns the error before it assigns the
\* content of the page.
ResolveLoopError ==
    /\ pc = "ResolveCrossReferences"
    /\ resolved < Len(pages)
    /\ LET page == Pointers(pages)[resolved + 1]
       IN  \E tree \in NewResults(contents[pages[page].Content].Html) :
           LET root == Body(tree.tree)
               links == ElementsByTagName(root, {<<"a">>})
               rewritten == ResolveLinks(root, links, 1, pages)
           IN  \E html \in HtmlResults(Children(rewritten)) :
                  TRUE \in {tree.err, html.err}
    /\ pc' = "failed"
    /\ err' = "ResolveCrossReferences"
    /\ UNCHANGED <<program, body, headings, index, h1Counter, h2Counter,
                   h3Counter, chapters, contents, pages, resolved>>

\* ResolveCrossReferences returns nil and book.New returns the Book.
ResolveReturn ==
    /\ pc = "ResolveCrossReferences"
    /\ resolved = Len(pages)
    /\ pc' = "done"
    /\ UNCHANGED <<program, err, body, headings, index, h1Counter, h2Counter,
                   h3Counter, chapters, contents, pages, resolved>>

----------------------------------------------------------------------------
\* internal/book/book.go

\* getTitle: the text of the first child of head whose tag is title.
getTitle(head) ==
    LET titles == {i \in 1..Len(head.Kids) : head.Kids[i].Data = TitleTag}
    IN  IF titles = {} THEN [title |-> <<>>, err |-> TRUE]
        ELSE [title |-> Text(head.Kids[CHOOSE i \in titles : \A j \in titles : i <= j]),
              err |-> FALSE]

\* getPreface: the results of Html over the siblings after the first child
\* of body, up to the first heading among them.
getPreface(node) ==
    HtmlResults(SiblingsUntilFunc(node, IF node.Kids = <<>> THEN Nil ELSE 1,
                                  IsHeadingFunc))

\* book.New, up to the call of Pages: the parse, head and body, the title
\* and the preface.  Author and date are read from head without an error.
BookNew ==
    /\ pc = "New"
    /\ \E tree \in NewResults(file) :
          LET head == HeadElement(tree.tree)
              node == Body(tree.tree)
          IN  IF tree.err
              THEN /\ pc' = "failed"
                   /\ err' = "parsetree.New"
                   /\ UNCHANGED <<body, preface>>
              ELSE IF ~IsHead(head)
              THEN /\ pc' = "failed"
                   /\ err' = "Head"
                   /\ UNCHANGED <<body, preface>>
              ELSE IF ~IsBody(node)
              THEN /\ pc' = "failed"
                   /\ err' = "Body"
                   /\ UNCHANGED <<body, preface>>
              ELSE IF getTitle(head).err
              THEN /\ pc' = "failed"
                   /\ err' = "getTitle"
                   /\ UNCHANGED <<body, preface>>
              ELSE \E prefaceHtml \in getPreface(node) :
                      IF prefaceHtml.err
                      THEN /\ pc' = "failed"
                           /\ err' = "getPreface"
                           /\ UNCHANGED <<body, preface>>
                      ELSE /\ pc' = "Pages"
                           /\ err' = err
                           /\ body' = node
                           /\ preface' = prefaceHtml.html
    /\ UNCHANGED <<file, outputDir, partial, staticDirectoryFlag, headings,
                   index, h1Counter, h2Counter, h3Counter, chapters, contents,
                   pages, resolved>>

----------------------------------------------------------------------------
\* cmd/bookprint/bookprint.go and internal/bookprint/bookprint.go.  File
\* names are strings like every other string.

IndexFile == <<"i", "n", "d", "e", "x", ".", "h", "t", "m", "l">>
MapFile == <<"m", "a", "p", ".", "h", "t", "m", "l">>
\* The files of the static directory and a file left by an earlier run.
StaticFiles == {<<"s", ".", "c", "s", "s">>}
OldFile == <<"o", "l", "d">>

\* The results the system calls of one call of CopyFile can have: whether
\* the source is a symlink (or the check fails), and whether each of the
\* other calls succeeds.
FileOutcomes ==
    [symlink : {"no", "yes", "error"}, clone : BOOLEAN, open : BOOLEAN,
     create : BOOLEAN, copy : BOOLEAN, close : BOOLEAN, stat : BOOLEAN,
     chmod : BOOLEAN]

\* CopyFile under the results o of its system calls, on a system other
\* than Windows: whether it returns an error, whether the destination file
\* exists afterwards and whether its contents are complete.  A symlink is
\* cloned.  When io.Copy fails, the error returned is the one of closing
\* the destination file, which a new variable err holds inside the branch.
CopyFile(o) ==
    IF o.symlink = "error" THEN [err |-> TRUE, created |-> FALSE, complete |-> FALSE]
    ELSE IF o.symlink = "yes"
    THEN [err |-> ~o.clone, created |-> o.clone, complete |-> o.clone]
    ELSE IF ~o.open THEN [err |-> TRUE, created |-> FALSE, complete |-> FALSE]
    ELSE IF ~o.create THEN [err |-> TRUE, created |-> FALSE, complete |-> FALSE]
    ELSE IF ~o.copy THEN [err |-> ~o.close, created |-> TRUE, complete |-> FALSE]
    ELSE [err |-> ~(o.close /\ o.stat /\ o.chmod),
          created |-> TRUE, complete |-> TRUE]

\* CopyDir, the loop over the entries of the source directory from entry i
\* on: every entry is a file, outcomes[i] are the results of the system
\* calls for entry i, and the first error of CopyFile ends the loop.
RECURSIVE CopyDirLoop(_, _, _, _)
CopyDirLoop(entries, outcomes, i, done) ==
    IF i > Len(entries) THEN [done EXCEPT !.err = FALSE]
    ELSE LET copied == CopyFile(outcomes[i])
             now == [err |-> copied.err,
                     created |-> done.created
                                 \cup (IF copied.created THEN {entries[i]} ELSE {}),
                     partial |-> done.partial
                                 \cup (IF copied.created /\ ~copied.complete
                                       THEN {entries[i]} ELSE {})]
         IN  IF copied.err THEN now
             ELSE CopyDirLoop(entries, outcomes, i + 1, now)

\* CopyDir: the checks of the two directories succeed or not (prepared),
\* then the loop.
CopyDir(entries, prepared, outcomes) ==
    IF ~prepared THEN [err |-> TRUE, created |-> {}, partial |-> {}]
    ELSE CopyDirLoop(entries, outcomes, 1,
                     [err |-> FALSE, created |-> {}, partial |-> {}])

\* The entries of the static directory in the order of os.ReadDir.
StaticEntries == <<(<<"s", ".", "c", "s", "s">>)>>

\* main, from the removal of the output directory to the call of
\* bookprint.New: the directory is removed, made anew, and filled with the
\* static files when the flag is set.  Any of the three can fail.
MainPrepare ==
    /\ pc = "main"
    /\ \E outcome \in {"nil", "RemoveDir", "MakeDir"} :
          IF outcome = "RemoveDir"
          THEN /\ pc' = "failed"
               /\ err' = "RemoveDir"
               /\ UNCHANGED <<outputDir, partial>>
          ELSE IF outcome = "MakeDir"
          THEN /\ pc' = "failed"
               /\ err' = "MakeDir"
               /\ outputDir' = {}
               /\ partial' = {}
          ELSE IF staticDirectoryFlag = <<>>
          THEN /\ pc' = "New"
               /\ err' = err
               /\ outputDir' = {}
               /\ partial' = {}
          ELSE \E prepared \in BOOLEAN :
               \E outcomes \in [1..Len(StaticEntries) -> FileOutcomes] :
                  LET copied == CopyDir(StaticEntries, prepared, outcomes)
                  IN  /\ pc' = IF copied.err THEN "failed" ELSE "New"
                      /\ err' = IF copied.err THEN "CopyDir" ELSE err
                      /\ outputDir' = copied.created
                      /\ partial' = copied.partial
    /\ UNCHANGED <<file, staticDirectoryFlag, preface, body, headings, index,
                   h1Counter, h2Counter, h3Counter, chapters, contents, pages,
                   resolved>>

\* The frame of the three steps of rendering.
book == <<file, staticDirectoryFlag, preface, body, headings, index,
          h1Counter, h2Counter, h3Counter, chapters, contents, pages, resolved>>

\* createIndex: the output file is created before the template is parsed
\* and executed.
createIndex ==
    /\ pc = "done"
    /\ \E outcome \in {"nil", "os.Create", "template"} :
          /\ pc' = IF outcome = "nil" THEN "createMap" ELSE "failed"
          /\ err' = IF outcome = "nil" THEN err ELSE "createIndex"
          /\ outputDir' = IF outcome = "os.Create" THEN outputDir
                          ELSE outputDir \cup {IndexFile}
          /\ partial' = IF outcome = "template" THEN partial \cup {IndexFile}
                        ELSE partial
    /\ UNCHANGED book

\* createMap: as createIndex.
createMap ==
    /\ pc = "createMap"
    /\ \E outcome \in {"nil", "os.Create", "template"} :
          /\ pc' = IF outcome = "nil" THEN "createPages" ELSE "failed"
          /\ err' = IF outcome = "nil" THEN err ELSE "createMap"
          /\ outputDir' = IF outcome = "os.Create" THEN outputDir
                          ELSE outputDir \cup {MapFile}
          /\ partial' = IF outcome = "template" THEN partial \cup {MapFile}
                        ELSE partial
    /\ UNCHANGED book

\* createPages: the template is parsed first, then one file per page is
\* created and written; created is the number of files created before the
\* function returns, and torn says that it returns because the template
\* failed while writing the last of them.
createPages ==
    /\ pc = "createPages"
    /\ \E created \in 0..Len(pages) : \E failed, torn \in BOOLEAN :
          /\ created < Len(pages) => failed
          /\ torn => (failed /\ created >= 1)
          /\ pc' = IF failed THEN "failed" ELSE "exit"
          /\ err' = IF failed THEN "createPages" ELSE err
          /\ outputDir' = outputDir \cup {pages[k].Path : k \in 1..created}
          /\ partial' = IF torn THEN partial \cup {pages[created].Path}
                        ELSE partial
    /\ UNCHANGED book

----------------------------------------------------------------------------
\* The documents the conversions start from.

BodyTag == <<"b", "o", "d", "y">>

\* Heading texts as they stand in the markup, before normalisation.
RawTitles == {<<"a", " ", " ", "b">>, <<"a", "+", "b">>}

\* The values of href: an escaped space, a plus sign, a malformed escape.
Hrefs == {<<"a", "%", "2", "0", "b">>, <<"a", "+", "b">>, <<"%", "z", "z">>}

HeadingNode(level, raw) ==
    Element(<<"h", Digits[level + 1]>>, <<>>, <<TextOf(raw)>>)

Anchor(href) ==
    Element(<<"a">>,
            <<[Key |-> <<"i", "d">>, Val |-> <<"x">>], [Key |-> Href, Val |-> href]>>,
            <<TextOf(<<"a">>)>>)

\* An element that is no heading and holds a heading and a link.
Division ==
    Element(<<"d", "i", "v">>, <<>>,
            <<HeadingNode(1, <<"a", " ", " ", "b">>),
              Anchor(<<"a", "%", "2", "0", "b">>)>>)

Nodes ==
    {HeadingNode(level, raw) : level \in 1..DocLevels, raw \in RawTitles}
    \cup {Anchor(href) : href \in Hrefs}
    \cup {Division}

HeadingNodes ==
    {HeadingNode(level, <<"a", " ", " ", "b">>) : level \in 1..HeadingLevels}

\* Nodes that are no body element: nil, a text node, another element.
NotBody ==
    {NilNode, TextOf(<<"a">>),
     Element(<<"d", "i", "v">>, <<>>, <<HeadingNode(1, <<"a", " ", " ", "b">>)>>)}

\* A call of function entry of internal/book on node, outside of a run of
\* the program.
StartAt(node, entry) ==
    /\ file = <<>>
    /\ outputDir = {}
    /\ partial = {}
    /\ staticDirectoryFlag = <<>>
    /\ preface = <<>>
    /\ err = NoError
    /\ body = node
    /\ pc = entry
    /\ headings = <<>>
    /\ index = 0
    /\ h1Counter = 0
    /\ h2Counter = 0
    /\ h3Counter = 0
    /\ chapters = <<>>
    /\ contents = <<>>
    /\ pages = <<>>
    /\ resolved = 0

Start(kids) == StartAt(Element(BodyTag, <<>>, kids), "Pages")

\* Pages on documents with headings, links and nested elements; Pages and
\* Chapters on nodes that are no body element.
Init ==
    \/ \E n \in 0..MaxNodes : \E kids \in [1..n -> Nodes] : Start(kids)
    \/ \E node \in NotBody : \E entry \in {"Pages", "Chapters"} : StartAt(node, entry)

\* Documents that are lists of headings of many levels.
InitHeadings ==
    \E n \in 0..MaxHeadings : \E kids \in [1..n -> HeadingNodes] : Start(kids)

Next ==
    \/ PagesEnter
    \/ ChaptersEnter
    \/ ChaptersLoop
    \/ PagesLoop
    \/ ResolveLoop
    \/ ResolveReturn

Spec == Init /\ [][Next]_vars

SpecHeadings == InitHeadings /\ [][Next]_vars

\* The nodes of small documents: headings of two levels and a link to
\* them.
FileNodes ==
    {HeadingNode(level, <<"a", " ", " ", "b">>) : level \in 1..2}
    \cup {Anchor(<<"a", "%", "2", "0", "b">>)}

\* The steps with a library that can report errors.
NextFaulty ==
    \/ Next
    \/ ChaptersLoopError
    \/ ResolveLoopError

\* Pages on the body of small documents, Pages and Chapters on nodes that
\* are no body element, with a library that can report errors.
InitFaulty ==
    \/ \E n \in 0..MaxFileNodes : \E kids \in [1..n -> FileNodes] : Start(kids)
    \/ \E node \in NotBody : \E entry \in {"Pages", "Chapters"} : StartAt(node, entry)

SpecFaulty == InitFaulty /\ [][NextFaulty]_vars

\* The input files of a run of the program: a title or none, the markup of
\* a few nodes, and nothing or a comment after the end tag of html.
TitleMarkup == RenderFrom(<<Element(TitleTag, <<>>, <<TextOf(<<"t">>)>>)>>, 1)

Trailer == <<EndOfHtml, [Tok |-> "comment", Data |-> <<"c">>, Attr |-> <<>>]>>

Files ==
    {title \o RenderFrom(kids, 1) \o trailer :
        title \in {<<>>, TitleMarkup},
        trailer \in {<<>>, Trailer},
        kids \in UNION {[1..n -> FileNodes] : n \in 0..MaxFileNodes}}

\* A run of the program: main with its flags, an output directory that is
\* empty or holds a file of an earlier run, and an input file.
InitMain ==
    /\ file \in Files
    /\ outputDir \in {{}, {OldFile}}
    /\ partial = {}
    /\ staticDirectoryFlag \in {<<>>, <<"s">>}
    /\ preface = <<>>
    /\ err = NoError
    /\ body = NilNode
    /\ pc = "main"
    /\ headings = <<>>
    /\ index = 0
    /\ h1Counter = 0
    /\ h2Counter = 0
    /\ h3Counter = 0
    /\ chapters = <<>>
    /\ contents = <<>>
    /\ pages = <<>>
    /\ resolved = 0

NextMain ==
    \/ MainPrepare
    \/ BookNew
    \/ NextFaulty
    \/ createIndex
    \/ createMap
    \/ createPages

SpecMain == InitMain /\ [][NextMain]_vars

----------------------------------------------------------------------------
\* Properties of the navigation fields.  Document order is the order of the
\* list: the section at position i is chapters[i], and pages[i] is its page.

LevelAt(i) == chapters[i].Level

\* The smallest and the largest member of a non-empty set of positions.
Lowest(set) == CHOOSE i \in set : \A j \in set : i <= j
Highest(set) == CHOOSE i \in set : \A j \in set : i >= j

\* The positions of a set, in document order.
InOrder(set) == SelectSeq([i \in 1..Len(chapters) |-> i], LAMBDA i : i \in set)

\* C1: for every section S of the list produced by Pages, S.Next is the
\* first later section T of the level of S if no section strictly between S
\* and T has a lower level, and is absent otherwise; so whenever S.Next
\* exists it has the level of S and every section strictly between them has
\* a higher level than S.
C1_NextIsFirstLaterOfSameLevel ==
    \A i \in 1..Len(pages) :
        LET same == {j \in (i + 1)..Len(pages) : LevelAt(j) = LevelAt(i)}
        IN  /\ IF /\ same # {}
                  /\ \A k \in (i + 1)..(Lowest(same) - 1) : ~(LevelAt(k) < LevelAt(i))
               THEN pages[i].Next = Lowest(same)
               ELSE pages[i].Next = Nil
            /\ pages[i].Next # Nil =>
                  /\ pages[i].Next > i
                  /\ LevelAt(pages[i].Next) = LevelAt(i)
                  /\ \A k \in (i + 1)..(pages[i].Next - 1) : ~(LevelAt(k) <= LevelAt(i))

\* A list where one section has a next section beyond deeper sections, and
\* another has none because a lower level comes before the later section of
\* its level.
C1_Witness ==
    /\ \E i \in 1..Len(pages) : pages[i].Next > i + 1
    /\ \E i \in 1..Len(pages) :
          /\ pages[i].Next = Nil
          /\ \E j \in (i + 1)..Len(pages) : LevelAt(j) = LevelAt(i)

\* C2: for every section S at position i, S.Previous is the first section
\* of the level of S met scanning backward from i - 1, and is absent if a
\* section of a lower level is met before it or the start of the list is
\* reached.
C2_PreviousIsFirstEarlierOfSameLevel ==
    \A i \in 1..Len(pages) :
        LET same == {j \in 1..(i - 1) : LevelAt(j) = LevelAt(i)}
            lower == {j \in 1..(i - 1) : LevelAt(j) < LevelAt(i)}
        IN  IF same # {} /\ (lower = {} \/ Highest(lower) < Highest(same))
            THEN pages[i].Previous = Highest(same)
            ELSE pages[i].Previous = Nil

\* A list where one section has a previous section beyond deeper sections,
\* and another has none because a lower level lies between it and the
\* earlier section of its level.
C2_Witness ==
    /\ \E i \in 1..Len(pages) :
          pages[i].Previous # Nil /\ pages[i].Previous < i - 1
    /\ \E i \in 1..Len(pages) :
          /\ pages[i].Previous = Nil
          /\ \E j \in 1..(i - 1) : LevelAt(j) = LevelAt(i)

\* C3: the children of a section S of level 1 or 2 are exactly the sections
\* of level S.Level + 1 after S and before the first later section of level
\* at most S.Level (or the end of the list), in document order; a section of
\* level 3 or more has no children.
C3_ChildrenAreNextLevelWithinSpan ==
    \A i \in 1..Len(pages) :
        LET stops == {j \in (i + 1)..Len(pages) : LevelAt(j) <= LevelAt(i)}
            end == IF stops = {} THEN Len(pages) + 1 ELSE Lowest(stops)
        IN  IF LevelAt(i) <= 2
            THEN pages[i].Children =
                    InOrder({t \in (i + 1)..(end - 1) : LevelAt(t) = LevelAt(i) + 1})
            ELSE pages[i].Children = <<>>

\* A list where a section has a child, has a section of the child level
\* beyond the end of its span, and where a section of level 3 is followed
\* at once by a section of level 4.
C3_Witness ==
    /\ \E i \in 1..Len(pages) :
          /\ pages[i].Children # <<>>
          /\ \E j \in (i + 1)..Len(pages) :
                /\ LevelAt(j) = LevelAt(i) + 1
                /\ \A k \in 1..Len(pages[i].Children) : pages[i].Children[k] # j
    /\ \E i \in 1..(Len(pages) - 1) : LevelAt(i) = 3 /\ LevelAt(i + 1) = 4

\* C4: every non-empty entry of S.Parents is an earlier section of a lower
\* level than S, stored at the slot of its level minus one (position Level
\* of the sequence); a slot whose level has no earlier section of a lower
\* level than S is empty.
C4_ParentsSlots ==
    \A i \in 1..Len(pages) :
        \A slot \in 1..Len(pages[i].Parents) :
            LET parent == pages[i].Parents[slot]
            IN  /\ parent # Nil =>
                      /\ parent \in 1..(i - 1)
                      /\ LevelAt(parent) < LevelAt(i)
                      /\ LevelAt(parent) - 1 = slot - 1
                /\ (~\E j \in 1..(i - 1) :
                        LevelAt(j) = slot /\ LevelAt(j) < LevelAt(i))
                      => parent = Nil

\* A section whose ancestor list has an empty slot below a filled one.
C4_Witness ==
    \E i \in 1..Len(pages) :
        \E low, high \in 1..Len(pages[i].Parents) :
            /\ low < high
            /\ pages[i].Parents[low] = Nil
            /\ pages[i].Parents[high] # Nil

----------------------------------------------------------------------------
\* Properties of the extraction.

\* Chapters has turned every heading it found into a chapter.
ExtractionFinished ==
    /\ pc \in {"ChaptersLoop", "ResolveCrossReferences", "done", "failed"}
    /\ err \in {NoError, "ResolveCrossReferences"}
    /\ index = Len(headings)

\* The heading elements among the children of body, in document order.
DirectHeadings == SelectSeq(body.Kids, IsHeading)

\* C5 as stated: extraction yields one section for every heading element
\* found within the body, a direct child of body or nested in another
\* element.
C5_OneSectionPerHeadingOfSubtree ==
    ExtractionFinished =>
        /\ Len(chapters) = Len(HeadingsNested(body))
        /\ \A k \in 1..Len(chapters) :
              chapters[k].Level =
                  HeadingMap[NodeAt(body, HeadingsNested(body)[k]).Data]

\* C5 as amended: extraction yields one section for every heading element
\* that is a direct child of body, in document order; a heading nested in
\* another element yields no section.
C5_OneSectionPerDirectHeading ==
    ExtractionFinished =>
        /\ Len(chapters) = Len(DirectHeadings)
        /\ \A k \in 1..Len(chapters) :
              /\ chapters[k].Level = HeadingMap[DirectHeadings[k].Data]
              /\ chapters[k].Title.Html = RenderFrom(DirectHeadings[k].Kids, 1)
        /\ pc \in {"ResolveCrossReferences", "done"} => Len(pages) = Len(DirectHeadings)

\* A finished conversion of a document that has headings among the children
\* of body and a heading nested in another element.
C5_Witness ==
    /\ pc = "done"
    /\ Len(chapters) >= 2
    /\ Len(HeadingsNested(body)) > Len(DirectHeadings)

\* C6: at every stage the section at position i has Id i, a level in 1..6
\* and a path determined by its Id alone, the pages stand in the order of
\* the chapters, and different sections have different paths.
C6_IdsFollowPositions ==
    /\ \A i \in 1..Len(chapters) :
          /\ chapters[i].Id = i
          /\ chapters[i].Level \in 1..6
    /\ \A i, j \in 1..Len(chapters) :
          (chapters[i].Path = chapters[j].Path) <=> (chapters[i].Id = chapters[j].Id)
    /\ \A i \in 1..Len(pages) :
          /\ pages[i].Id = i
          /\ pages[i].Level = chapters[i].Level
          /\ pages[i].Path = chapters[i].Path
    /\ \A i, j \in 1..Len(pages) :
          i # j => pages[i].Path # pages[j].Path

\* A finished conversion with several pages in which cross-reference
\* resolution has rewritten a link.
C6_Witness ==
    /\ pc = "done"
    /\ Len(pages) >= 3
    /\ \E c \in 1..Len(contents) : \E t \in 1..Len(contents[c].Html) :
          \E a \in 1..Len(contents[c].Html[t].Attr) :
              \E p \in 1..Len(pages) :
                  contents[c].Html[t].Attr[a].Val = pages[p].Path

----------------------------------------------------------------------------
\* Properties of the numbering.

\* The number of sections of level 1 among the first k.
Level1Seen(k) == Cardinality({j \in 1..k : LevelAt(j) = 1})

\* The position of the last section of a level among the first k, or 0.
LastOfLevel(level, k) ==
    IF {j \in 1..k : LevelAt(j) = level} = {} THEN 0
    ELSE Highest({j \in 1..k : LevelAt(j) = level})

\* The number of sections of level 2 among the first k after the last
\* section of level 1.
Level2SinceLevel1(k) ==
    Cardinality({j \in 1..k : LevelAt(j) = 2 /\ j > LastOfLevel(1, k)})

\* The number of sections of level 3 among the first k after the last
\* section of level 2.
Level3SinceLevel2(k) ==
    Cardinality({j \in 1..k : LevelAt(j) = 3 /\ j > LastOfLevel(2, k)})

Levels == [k \in 1..Len(chapters) |-> chapters[k].Level]
Prefixes == [k \in 1..Len(chapters) |-> chapters[k].Title.Prefix]

\* C7: a heading of level 1 gets the number of level-1 headings seen so
\* far; a heading of level 2 gets that number, a dot, and the number of
\* level-2 headings seen since the last level-1 heading; h1, h2, h2, h1, h2
\* gives 1, 1.1, 1.2, 2, 2.1.
C7_PrefixOfLevels1And2 ==
    /\ \A k \in 1..Len(chapters) :
          /\ LevelAt(k) = 1 =>
                chapters[k].Title.Prefix = FormatInt(Level1Seen(k))
          /\ LevelAt(k) = 2 =>
                chapters[k].Title.Prefix =
                    FormatInt(Level1Seen(k)) \o <<".">>
                    \o FormatInt(Level2SinceLevel1(k))
    /\ Levels = <<1, 2, 2, 1, 2>> =>
          Prefixes = <<(<<"1">>), <<"1", ".", "1">>, <<"1", ".", "2">>,
                       (<<"2">>), <<"2", ".", "1">>>>

\* The headings h1, h2, h2, h1, h2 have all been numbered.
C7_Witness == Levels = <<1, 2, 2, 1, 2>>

\* C8: a heading of level 3 gets the level-1 and level-2 numbers and the
\* number of level-3 headings seen since the last level-2 heading, which a
\* level-1 heading does not reset; h1, h2, h3, h1, h3 gives 1, 1.1, 1.1.1,
\* 2, 2.0.2.
C8_PrefixOfLevel3 ==
    /\ \A k \in 1..Len(chapters) :
          LevelAt(k) = 3 =>
              chapters[k].Title.Prefix =
                  FormatInt(Level1Seen(k)) \o <<".">>
                  \o FormatInt(Level2SinceLevel1(k)) \o <<".">>
                  \o FormatInt(Level3SinceLevel2(k))
    /\ Levels = <<1, 2, 3, 1, 3>> =>
          Prefixes = <<(<<"1">>), <<"1", ".", "1">>, <<"1", ".", "1", ".", "1">>,
                       (<<"2">>), <<"2", ".", "0", ".", "2">>>>

\* The headings h1, h2, h3, h1, h3 have all been numbered.
C8_Witness == Levels = <<1, 2, 3, 1, 3>>

\* The closure applied to the first k of a list of heading nodes, from
\* fresh counters: the prefixes and the counters afterwards.
RECURSIVE Numbered(_, _)
Numbered(nodes, k) ==
    IF k = 0 THEN [out |-> <<>>, h1 |-> 0, h2 |-> 0, h3 |-> 0]
    ELSE LET before == Numbered(nodes, k - 1)
             this == getPrefix(before.h1, before.h2, before.h3, nodes[k])
         IN  [out |-> Append(before.out, this.out),
              h1 |-> this.h1, h2 |-> this.h2, h3 |-> this.h3]

\* The headings numbered so far that have level 1, 2 or 3.
NumberedHeadings ==
    SelectSeq([k \in 1..Len(chapters) |-> NodeAt(body, headings[k])],
              LAMBDA n : HeadingMap[n.Data] <= 3)

\* The number of dot-separated components of a non-empty prefix.
Components(prefix) == Cardinality({i \in 1..Len(prefix) : prefix[i] = "."}) + 1

\* C9: a heading of level 4, 5 or 6 gets the empty prefix and leaves the
\* counters as they are, so the prefixes of the headings of level 1 to 3
\* and the counters are those of the list without the headings of level 4
\* to 6; the prefix of a heading of level 1 to 3 has as many components as
\* its level.
C9_DeepHeadingsAreNotNumbered ==
    LET without == Numbered(NumberedHeadings, Len(NumberedHeadings))
    IN  /\ \A k \in 1..Len(chapters) :
              /\ LevelAt(k) >= 4 => chapters[k].Title.Prefix = <<>>
              /\ LevelAt(k) <= 3 =>
                    /\ chapters[k].Title.Prefix # <<>>
                    /\ Components(chapters[k].Title.Prefix) = LevelAt(k)
        /\ SelectSeq(Prefixes, LAMBDA prefix : prefix # <<>>) = without.out
        /\ <<h1Counter, h2Counter, h3Counter>> = <<without.h1, without.h2, without.h3>>

\* A list numbered so far in which headings of level 4 and 5 stand between
\* numbered headings of levels 1, 2 and 3.
C9_Witness ==
    \E i, j, k \in 1..Len(chapters) :
        /\ i < j /\ j < k
        /\ LevelAt(i) <= 3 /\ LevelAt(j) >= 4 /\ LevelAt(k) = 3
        /\ \E l \in 1..Len(chapters) : LevelAt(l) = 5

----------------------------------------------------------------------------
\* Properties of the cross-reference resolution.

\* The positions of the pages whose title text is text.
Titled(text) == {p \in 1..Len(pages) : pages[p].Title.Text = text}

\* Percent-decoding: every %XX becomes the byte XX and every other
\* character, '+' included, stands for itself.
PercentDecodes(href) == WellFormedFrom(href, 1)
PercentDecoded(href) == UnescapeFrom(href, 1, FALSE)

\* C10: when ResolveCrossReferences processes a page, every href of every
\* anchor of its content whose percent-decoded value is the title text of
\* some page of the list becomes the path of the first page with that
\* title text.
C10_MatchingHrefsBecomeFirstPath ==
    [][resolved' = resolved + 1 =>
        LET content == pages[resolved + 1].Content
            before == contents[content].Html
            after == contents'[content].Html
        IN  \A t \in 1..Len(before) :
                (before[t].Tok = "start" /\ before[t].Data = <<"a">>) =>
                    \A a \in 1..Len(before[t].Attr) :
                        (/\ before[t].Attr[a].Key = Href
                         /\ PercentDecodes(before[t].Attr[a].Val)
                         /\ Titled(PercentDecoded(before[t].Attr[a].Val)) # {})
                        => after[t].Attr[a].Val =
                             pages[Lowest(Titled(PercentDecoded(before[t].Attr[a].Val)))].Path
    ]_vars

\* C11: when ResolveCrossReferences processes a page, every href of every
\* anchor of its content that cannot be percent-decoded, or whose
\* percent-decoded value is the title text of no page of the list, is in
\* the rewritten content what it was before; the page is processed without
\* an error and the loop goes on to the next page.
C11_OtherHrefsStay ==
    [][resolved' = resolved + 1 =>
        LET content == pages[resolved + 1].Content
            before == contents[content].Html
            after == contents'[content].Html
        IN  /\ pc' = "ResolveCrossReferences"
            /\ err' = NoError
            /\ \A t \in 1..Len(before) :
                  (before[t].Tok = "start" /\ before[t].Data = <<"a">>) =>
                      \A a \in 1..Len(before[t].Attr) :
                          (/\ before[t].Attr[a].Key = Href
                           /\ \/ ~PercentDecodes(before[t].Attr[a].Val)
                              \/ Titled(PercentDecoded(before[t].Attr[a].Val)) = {})
                          => after[t].Attr[a].Val = before[t].Attr[a].Val
    ]_vars

----------------------------------------------------------------------------
\* Properties of a run of the program.

\* The run has ended with an error of the segmentation (Pages, Chapters)
\* or of the resolution of the cross-references.
ConversionFailed == pc = "failed" /\ err \in {"Pages", "ResolveCrossReferences"}

\* The files the rendering stage writes for the pages made so far.
Rendered == {IndexFile, MapFile} \cup {pages[k].Path : k \in 1..Len(pages)}

\* C12: when the segmentation or the resolution of the cross-references
\* has failed, the rendering stage has not run and the run has written
\* nothing into the output directory: main has removed and made the
\* directory, so it is empty.
C12_FailedConversionWritesNothing ==
    ConversionFailed => outputDir \cap Rendered = {} /\ outputDir = {}

----------------------------------------------------------------------------
\* Properties of the errors of the segmentation.

\* Pages or Chapters has been called and is past its check of the node.
PastCheck == pc \in {"ChaptersLoop", "ResolveCrossReferences", "done", "failed"}

\* C13: Pages and Chapters called on a node that is no body element have
\* failed once they are past their check, and there is no chapter and no
\* page; whenever Pages has returned an error, there is no page.
C13_NoSectionsWithoutBody ==
    /\ (PastCheck /\ ~IsBody(body)) =>
          /\ pc = "failed"
          /\ err \in {"Pages", "Chapters"}
          /\ chapters = <<>>
          /\ pages = <<>>
    /\ (pc = "failed" /\ err = "Pages") => pages = <<>>

\* Chapters has failed on an element that is no body and holds a heading.
C13_Witness ==
    /\ pc = "failed"
    /\ err = "Chapters"
    /\ IsElement(body)
    /\ ~IsBody(body)
    /\ Headings(body) # <<>>

----------------------------------------------------------------------------
\* Properties of the errors of the resolution.

\* The markup of the content of section j as it is when Pages returns: the
\* siblings after heading j up to the next heading among them, serialized.
OriginalContent(j) ==
    RenderFrom(SiblingsUntilFunc(NodeAt(body, Front(headings[j])),
                                 Last(headings[j]), IsHeadingFunc), 1)

\* The markup of the content of the page at position j.
ContentOf(j) == contents[pages[j].Content].Html

\* C14: when ResolveCrossReferences fails at the page after the first
\* resolved ones, it returns the error and does nothing more; the contents
\* of the pages before it stay as they have been rewritten, and the content
\* of that page and of every later page is the markup it had before the
\* call.
C14_FailureKeepsEarlierRewrites ==
    [][/\ (pc = "ResolveCrossReferences" /\ pc' = "failed") =>
            /\ err' = "ResolveCrossReferences"
            /\ resolved' = resolved
            /\ pages' = pages
            /\ \A j \in 1..resolved :
                  contents'[pages[j].Content] = contents[pages[j].Content]
            /\ \A j \in (resolved + 1)..Len(pages) :
                  contents'[pages[j].Content].Html = OriginalContent(j)
       /\ pc = "failed" => (pc' = "failed" /\ contents' = contents)
    ]_vars

\* ResolveCrossReferences has failed after it has rewritten the content of
\* an earlier page, at a page whose content holds a link.
C14_Witness ==
    /\ pc = "failed"
    /\ err = "ResolveCrossReferences"
    /\ \E j \in 1..resolved : ContentOf(j) # OriginalContent(j)
    /\ ContentOf(resolved + 1) # <<>>

----------------------------------------------------------------------------
\* Properties of the computation of the navigation fields as a whole.

----------------------------------------------------------------------------
\* Properties of the contents of the sections.

\* The contents are as Chapters has made them: no page has been resolved.
ContentsAsExtracted ==
    \/ pc = "ChaptersLoop"
    \/ pc = "ResolveCrossReferences" /\ resolved = 0

\* The markup of the document after heading k, to the end of body.
MarkupAfter(k) ==
    RenderFrom(SubSeq(body.Kids, headings[k][1] + 1, Len(body.Kids)), 1)

\* A piece of markup up to, and without, its first start tag of a heading.
UpToHeading(markup) ==
    LET stops == {t \in 1..Len(markup) :
                    markup[t].Tok = "start" /\ markup[t].Data \in DOMAIN HeadingMap}
    IN  SubSeq(markup, 1, IF stops = {} THEN Len(markup) ELSE Lowest(stops) - 1)

\* C16 as claimed: the content of the section of heading k is what follows
\* the heading in the document up to, and without, the next heading element
\* of any level, wherever that heading stands; all that follows if there is
\* none.
C16_ContentEndsAtNextHeading ==
    ContentsAsExtracted =>
        \A k \in 1..Len(chapters) :
            contents[chapters[k].Content].Html = UpToHeading(MarkupAfter(k))

\* C16: the content of the section of heading k is the children of body
\* after the heading up to, and without, the next child of body that is a
\* heading, each with all it holds, in the order of the document; all
\* children after the heading if no child that is a heading follows, and
\* nothing if the next child is a heading.
C16_ContentEndsAtNextSiblingHeading ==
    ContentsAsExtracted =>
        \A k \in 1..Len(chapters) :
            LET from == headings[k][1] + 1
                to == IF k < Len(headings) THEN headings[k + 1][1] - 1
                      ELSE Len(body.Kids)
            IN  /\ contents[chapters[k].Content].Html =
                      RenderFrom(SubSeq(body.Kids, from, to), 1)
                /\ \A j \in from..to : ~IsHeading(body.Kids[j])
                /\ k < Len(headings) => IsHeading(body.Kids[to + 1])

\* All headings are extracted; one is followed at once by another and has
\* no content, and the content of the last one runs to the end of body and
\* holds an element with a heading inside.
C16_Witness ==
    /\ ContentsAsExtracted
    /\ ExtractionFinished
    /\ Len(chapters) >= 2
    /\ \E k \in 1..(Len(chapters) - 1) : contents[chapters[k].Content].Html = <<>>
    /\ LET last == contents[chapters[Len(chapters)].Content].Html
       IN  /\ last # UpToHeading(last)
           /\ Len(last) > Len(RenderFrom(<<Division>>, 1))

----------------------------------------------------------------------------
\* Properties of the ancestors.

\* C17: every section A stored in the Parents of a section S encloses S: A
\* comes before S, has a lower level than S, and no section strictly
\* between A and S has a level lower than or equal to that of A.
C17_ParentsEnclose ==
    \A i \in 1..Len(pages) :
        \A slot \in 1..Len(pages[i].Parents) :
            LET parent == pages[i].Parents[slot]
            IN  parent # Nil =>
                    /\ parent < i
                    /\ LevelAt(parent) < LevelAt(i)
                    /\ \A j \in (parent + 1)..(i - 1) : LevelAt(j) > LevelAt(parent)

----------------------------------------------------------------------------
\* Properties of the preface.

\* The markup of the contents of the first k sections, one after another.
RECURSIVE ContentsUpTo(_)
ContentsUpTo(k) ==
    IF k = 0 THEN <<>>
    ELSE ContentsUpTo(k - 1) \o contents[chapters[k].Content].Html

\* C18: once all headings are extracted, every child of body that is no
\* heading stands in exactly one place of the book, the preface or the
\* content of one section: the preface followed by the contents of the
\* sections is the markup of the children of body that are no headings,
\* each once and in the order of the document.
C18_EveryNodeInOnePlace ==
    (ContentsAsExtracted /\ ExtractionFinished) =>
        preface \o ContentsUpTo(Len(chapters)) =
            RenderFrom(SelectSeq(body.Kids, LAMBDA n : ~IsHeading(n)), 1)

----------------------------------------------------------------------------
\* Properties of the search for head and body.

\* The first element with tag in the subtree of node in document order, a
\* node before what it holds; NilNode if there is none.
FirstElement(node, tag) ==
    IF IsNil(node) THEN NilNode
    ELSE IF IsElement(node) /\ node.Data = tag THEN node
    ELSE LET found == SelectSeq(ElementsByTagName(node, {tag}),
                                LAMBDA path : IsElement(NodeAt(node, path)))
         IN  IF found = <<>> THEN NilNode ELSE NodeAt(node, found[1])

\* book.New has parsed the file and searched it for head and body.
Searched ==
    /\ pc \notin {"main", "New"}
    /\ err \notin {"RemoveDir", "MakeDir", "CopyDir", "parsetree.New"}

\* C19: for the document of the input file, Head and Body have returned
\* the first head and the first body element of the document in document
\* order, and nil only if the document holds none.
C19_FirstHeadAndBody ==
    Searched =>
        LET tree == New(file).tree
        IN  /\ HeadElement(tree) = FirstElement(tree, <<"h", "e", "a", "d">>)
            /\ Body(tree) = FirstElement(tree, BodyTag)

----------------------------------------------------------------------------
\* Properties of the shared contents.

\* The chapters the navigation fields of the page at position i point to.
References(i) ==
    ({pages[i].Next, pages[i].Previous}
     \cup {pages[i].Parents[k] : k \in 1..Len(pages[i].Parents)}
     \cup {pages[i].Children[k] : k \in 1..Len(pages[i].Children)}) \ {Nil}

\* C20: after ResolveCrossReferences has returned without an error, the
\* content reached through any reference of any page to the section with Id
\* k is the content of the page with Id k, as the resolution has rewritten
\* it.
C20_ReferencesSeeRewrittenContent ==
    pc = "done" =>
        \A i \in 1..Len(pages) : \A chapter \in References(i) :
            \E k \in 1..Len(pages) :
                /\ pages[k].Id = chapters[chapter].Id
                /\ contents[chapters[chapter].Content] = contents[pages[k].Content]

\* A finished conversion in which the previous section of one page and a
\* parent or child of another are sections whose content the resolution has
\* changed.
C20_Witness ==
    /\ pc = "done"
    /\ \E i \in 1..Len(pages) :
          /\ pages[i].Previous # Nil
          /\ ContentOf(pages[i].Previous) # OriginalContent(pages[i].Previous)
    /\ \E i \in 1..Len(pages) : \E chapter \in References(i) :
          /\ LevelAt(chapter) # LevelAt(i)
          /\ ContentOf(chapter) # OriginalContent(chapter)

----------------------------------------------------------------------------
\* Relations between the navigation fields.

\* C21: Next and Previous are inverse to each other: for all sections at
\* positions s and t, the next section of s is t exactly when the previous
\* section of t is s.
C21_NextAndPreviousAreInverse ==
    \A s, t \in 1..Len(pages) :
        (pages[s].Next = t) <=> (pages[t].Previous = s)

\* A list where a section and its next section stand apart with deeper
\* sections between them, and where a section has no next section although
\* a later section has its level.
C21_Witness ==
    /\ \E s, t \in 1..Len(pages) :
          /\ t > s + 1
          /\ pages[s].Next = t
          /\ pages[t].Previous = s
    /\ \E s, t \in 1..Len(pages) :
          /\ s < t
          /\ LevelAt(s) = LevelAt(t)
          /\ pages[s].Next = Nil
          /\ pages[t].Previous = Nil

\* C22: every child listed for a section S has S in its Parents at the
\* slot of the level of S (Go index S.Level - 1), and that slot is the last
\* one: S is the nearest ancestor of the child.
C22_ChildrenNameTheirParent ==
    \A s \in 1..Len(pages) :
        \A k \in 1..Len(pages[s].Children) :
            LET t == pages[s].Children[k]
            IN  /\ Len(pages[t].Parents) = LevelAt(s)
                /\ pages[t].Parents[LevelAt(s)] = s

\* A list where a section of level 2 has two children whose Parents have an
\* empty slot for level 1, and a later section of level 1 has a child too.
C22_Witness ==
    /\ \E s \in 1..Len(pages) :
          /\ LevelAt(s) = 2
          /\ Len(pages[s].Children) >= 2
          /\ pages[pages[s].Children[2]].Parents[1] = Nil
    /\ \E s \in 1..Len(pages) :
          /\ LevelAt(s) = 1
          /\ pages[s].Children # <<>>

\* C23: the prefixes of the sections of level 1, 2 and 3 numbered so far
\* are pairwise different, whatever the order of the levels.
C23_PrefixesAreDistinct ==
    \A i, j \in 1..Len(chapters) :
        (i # j /\ LevelAt(i) <= 3 /\ LevelAt(j) <= 3) =>
            chapters[i].Title.Prefix # chapters[j].Title.Prefix

\* Five numbered sections of a document that starts below level 1, has a
\* heading of level 3 right after one of level 1, and two headings of level
\* 2 under different headings of level 1.
C23_Witness ==
    /\ Len(chapters) = 5
    /\ \A i \in 1..5 : LevelAt(i) <= 3
    /\ LevelAt(1) > 1
    /\ \E i \in 1..4 : LevelAt(i) = 1 /\ LevelAt(i + 1) = 3
    /\ \E i, j, k \in 1..5 :
          i < j /\ j < k /\ LevelAt(i) = 2 /\ LevelAt(j) = 1 /\ LevelAt(k) = 2

----------------------------------------------------------------------------
\* Copying the static files.

\* C24: whenever CopyFile fails to copy the contents of a file (io.Copy
\* fails), it returns an error, also when closing the destination file
\* succeeds; it returns nil only if the contents were copied completely.
\* For the program: a static file in the output directory whose contents
\* are not complete means that the run has ended with the error of CopyDir.
C24_FailedCopyIsReported ==
    \A f \in partial \cap StaticFiles : pc = "failed" /\ err = "CopyDir"

====
